---- MODULE Spec2Model ----
(***************************************************************************)
(* Model of the profile-analysis flow of AI-pathfinder                     *)
(* (src/src/ai/genkit.ts): the response normalizer, the local fallback    *)
(* generator and the orchestrating flow analyzeStudentProfileFlow; and of   *)
(* the PDF export of the report renderer (src/unnamed/part_000).           *)
(*                                                                         *)
(* JavaScript values are tagged records:                                   *)
(*   [t |-> "undef"], [t |-> "null"], [t |-> "bool", b |-> ...],           *)
(*   [t |-> "num", n |-> ...], [t |-> "str", s |-> <<symbols>>],           *)
(*   [t |-> "arr", a |-> <<values>>],                                      *)
(*   [t |-> "obj", f |-> <<[k |-> key, v |-> value], ...>>]                *)
(* A string is a sequence of symbols; a symbol is one character or one     *)
(* word of letters that the code never looks inside.  The fields of an     *)
(* object are kept in insertion order, the order Object.keys reports.      *)
(***************************************************************************)
EXTENDS Integers, Sequences, FiniteSets, TLC

VARIABLES
  \* one run of analyzeStudentProfileFlow
  flowDef,        \* which definition of the flow runs: 1 = lines 124-245, 2 = lines 360-401
  input,          \* the ProfileInput, as far as the flow itself reads it: [interests |-> ...]
  pc,             \* "start" | "called" | "normalized" | "catch" | "done" | "rejected" | "idle"
  output,         \* the output of the model call
  normalized,     \* const normalized = normalize(output)
  result,         \* the value the flow returns
  thrown,         \* the exceptions raised so far, by origin: "model" | "normalize" | "fallback"
  consoleErrors,  \* number of console.error calls
  modelCalls,     \* number of calls of analyzeProfilePrompt
  fallbackCalls,  \* number of calls of fallbackSuggestions
  \* normalize called on its own
  narg,           \* the argument
  nret,           \* the completion of the call
  npc,            \* "call" | "returned" | "idle"
  \* fallbackSuggestions called on its own
  farg,           \* the argument
  fret,           \* the completion of the call
  fpc,            \* "call" | "returned" | "idle"
  \* one run of handleDownloadPathPdf
  path,           \* the career path, as far as its name goes: [careerPath |-> <<characters>>]
  ppc,            \* "start" | "na" | "items" | "saved" | "idle"
  section,        \* the section being written: an index of Sections, 0 before the first
  left,           \* how many blocks (items, course, project, roadmap lines) the section still has
  y,              \* let y: the vertical cursor
  pages,          \* number of pages of the document
  drawn,          \* the last doc.text below the title: what, where, how many lines
  fileName,       \* the name given to doc.save
  \* sanitizeFileName called on its own
  sarg,           \* the argument
  sret,           \* the string returned
  spc             \* "call" | "returned" | "idle"

flowvars ==
  <<flowDef, input, pc, output, normalized, result, thrown, consoleErrors, modelCalls,
    fallbackCalls>>
nvars == <<narg, nret, npc>>
fvars == <<farg, fret, fpc>>
pvars == <<path, ppc, section, left, y, pages, drawn, fileName>>
svars == <<sarg, sret, spc>>
uivars == <<pvars, svars>>
vars == <<flowvars, nvars, fvars, uivars>>

(***************************************************************************)
(* Bounds of the input sets.                                               *)
(***************************************************************************)
MaxLen == 2       \* longest array among the generated model outputs
MaxFields == 2    \* most fields of a generated object
MaxInterests == 3 \* longest interests sequence given to fallbackSuggestions
FlowMaxInterests == 2 \* longest interests sequence of a ProfileInput in a flow run

(***************************************************************************)
(* JavaScript values.                                                      *)
(***************************************************************************)
Undefined == [t |-> "undef"]
Null == [t |-> "null"]
Bool(b) == [t |-> "bool", b |-> b]
Num(n) == [t |-> "num", n |-> n]
Str(s) == [t |-> "str", s |-> s]
Arr(a) == [t |-> "arr", a |-> a]
Obj(f) == [t |-> "obj", f |-> f]
Field(k, v) == [k |-> k, v |-> v]

\* Array.isArray(v)
IsArray(v) == v.t = "arr"

\* ToBoolean(v), the test made by `data && ...`
Truthy(v) ==
  CASE v.t = "undef" -> FALSE
    [] v.t = "null" -> FALSE
    [] v.t = "bool" -> v.b
    [] v.t = "num" -> v.n # 0
    [] v.t = "str" -> v.s # <<>>
    [] OTHER -> TRUE

\* v[key] for a value that is neither null nor undefined: an own field of an
\* object; the keys read by the code are no property of a primitive, an array
\* or Object.prototype, so every other read gives undefined.
GetProp(v, key) ==
  IF v.t = "obj" /\ \E i \in 1..Len(v.f) : v.f[i].k = key
  THEN v.f[CHOOSE i \in 1..Len(v.f) : v.f[i].k = key].v
  ELSE Undefined

\* obj[key] = val as JSON.parse creates properties: a repeated key keeps its
\* first position and takes the last value.
SetProp(f, key, val) ==
  IF \E i \in 1..Len(f) : f[i].k = key
  THEN [i \in 1..Len(f) |-> IF f[i].k = key THEN Field(key, val) ELSE f[i]]
  ELSE Append(f, Field(key, val))

(***************************************************************************)
(* JSON text.  Symbols of the text alphabet.                               *)
(***************************************************************************)
QUOTE == "\""
ESCQUOTE == "\\\""
Digits == <<"0", "1", "2">>
DigitSyms == {Digits[i] : i \in 1..Len(Digits)}
DigitOf(sym) == (CHOOSE i \in 1..Len(Digits) : Digits[i] = sym) - 1

\* The characters of a string literal: an escaped quote stands for a quote.
Unescape(s) == [i \in 1..Len(s) |-> IF s[i] = ESCQUOTE THEN QUOTE ELSE s[i]]
Escape(s) == [i \in 1..Len(s) |-> IF s[i] = QUOTE THEN ESCQUOTE ELSE s[i]]

ParseFail == [ok |-> FALSE, v |-> Null, rest |-> <<>>]
ParseOk(v, rest) == [ok |-> TRUE, v |-> v, rest |-> rest]

\* A string literal at the head of s: QUOTE, characters, QUOTE.
ParseString(s) ==
  IF Len(s) < 2 \/ s[1] # QUOTE \/ ~(\E i \in 2..Len(s) : s[i] = QUOTE)
  THEN ParseFail
  ELSE LET close == CHOOSE i \in 2..Len(s) :
                      s[i] = QUOTE /\ \A j \in 2..(i - 1) : s[j] # QUOTE
       IN ParseOk(Str(Unescape(SubSeq(s, 2, close - 1))), SubSeq(s, close + 1, Len(s)))

RECURSIVE ParseValue(_)
RECURSIVE ParseElements(_, _)
RECURSIVE ParseMembers(_, _)

\* JSON value grammar (ECMA-404) over the symbol alphabet.
ParseValue(s) ==
  IF s = <<>> THEN ParseFail
  ELSE CASE s[1] = "null" -> ParseOk(Null, Tail(s))
         [] s[1] = "true" -> ParseOk(Bool(TRUE), Tail(s))
         [] s[1] = "false" -> ParseOk(Bool(FALSE), Tail(s))
         [] s[1] \in DigitSyms -> ParseOk(Num(DigitOf(s[1])), Tail(s))
         [] s[1] = QUOTE -> ParseString(s)
         [] s[1] = "[" ->
              IF Len(s) >= 2 /\ s[2] = "]"
              THEN ParseOk(Arr(<<>>), SubSeq(s, 3, Len(s)))
              ELSE ParseElements(Tail(s), <<>>)
         [] s[1] = "{" ->
              IF Len(s) >= 2 /\ s[2] = "}"
              THEN ParseOk(Obj(<<>>), SubSeq(s, 3, Len(s)))
              ELSE ParseMembers(Tail(s), <<>>)
         [] OTHER -> ParseFail

\* value ("," value)* "]"
ParseElements(s, acc) ==
  LET e == ParseValue(s) IN
  IF ~e.ok \/ e.rest = <<>> THEN ParseFail
  ELSE IF e.rest[1] = "," THEN ParseElements(Tail(e.rest), Append(acc, e.v))
  ELSE IF e.rest[1] = "]" THEN ParseOk(Arr(Append(acc, e.v)), Tail(e.rest))
  ELSE ParseFail

\* string ":" value ("," string ":" value)* "}"
ParseMembers(s, acc) ==
  LET key == ParseString(s) IN
  IF ~key.ok \/ key.rest = <<>> \/ key.rest[1] # ":" THEN ParseFail
  ELSE LET e == ParseValue(Tail(key.rest)) IN
       IF ~e.ok \/ e.rest = <<>> THEN ParseFail
       ELSE IF e.rest[1] = ","
            THEN ParseMembers(Tail(e.rest), SetProp(acc, key.v.s, e.v))
       ELSE IF e.rest[1] = "}"
            THEN ParseOk(Obj(SetProp(acc, key.v.s, e.v)), Tail(e.rest))
       ELSE ParseFail

\* JSON.parse(text): the value, or a SyntaxError when the text is not exactly
\* one JSON value.
JSONparse(text) ==
  LET r == ParseValue(text) IN
  IF r.ok /\ r.rest = <<>> THEN [threw |-> FALSE, value |-> r.v]
  ELSE [threw |-> TRUE, value |-> Undefined]

(***************************************************************************)
(* normalize (genkit.ts lines 132-150; the second definition of the flow,  *)
(* lines 370-396, holds the same function).                                *)
(***************************************************************************)
Return(v) == [threw |-> FALSE, value |-> v]
Throw == [threw |-> TRUE, value |-> <<>>]

\* Array.isArray((data as any)[key]): reading a property of null or undefined
\* is a TypeError.
ReadIsArray(data, key) ==
  IF data.t \in {"null", "undef"} THEN [threw |-> TRUE, b |-> FALSE]
  ELSE [threw |-> FALSE, b |-> IsArray(GetProp(data, key))]

\* data && Array.isArray((data as any)[key])
HasArrayField(data, key) ==
  IF ~Truthy(data) THEN [threw |-> FALSE, b |-> FALSE]
  ELSE ReadIsArray(data, key)

\* if (typeof data === 'string') data = JSON.parse(data);   (line 135)
ParseIfString(out) ==
  IF out.t = "str" THEN JSONparse(out.s) ELSE [threw |-> FALSE, value |-> out]

\* let data = out; try { ... } catch (_) {}   (lines 133-136): a SyntaxError of
\* JSON.parse is swallowed and data stays the string.
TryParse_nocatch(out) == ParseIfString(out)
TryParse_noparse(out) == [threw |-> FALSE, value |-> out]
TryParse(out) ==
  LET p == ParseIfString(out)
  IN IF p.threw THEN [threw |-> FALSE, value |-> out] ELSE p

\* for (const key of Object.keys(data)) { if (Array.isArray(val)) arrays.push(...val); }
RECURSIVE FlattenArrays_lastFirst(_)
FlattenArrays_lastFirst(f) ==
  IF f = <<>> THEN <<>>
  ELSE FlattenArrays_lastFirst(Tail(f)) \o (IF IsArray(f[1].v) THEN f[1].v.a ELSE <<>>)
RECURSIVE FlattenArrays(_)
FlattenArrays(f) ==
  IF f = <<>> THEN <<>>
  ELSE (IF IsArray(f[1].v) THEN f[1].v.a ELSE <<>>) \o FlattenArrays(Tail(f))

K_suggestedCareerPaths == <<"suggestedCareerPaths">>
K_careerPaths == <<"careerPaths">>

\* if (Array.isArray(data)) return data;   (line 138)
TopLevelArray_onlyRecords(data) == Return(SelectSeq(data.a, LAMBDA e : e.t = "obj"))
TopLevelArray(data) == Return(data.a)

\* return [];   (line 149)
NoArrays_wrap(data) == Return(IF data.t = "obj" THEN <<data>> ELSE <<>>)
NoArrays(data) == Return(<<>>)

\* The shape inspection of lines 138-149 on the (possibly parsed) data.
Shape_careerPathsFirst(data) ==
  LET c1 == HasArrayField(data, K_suggestedCareerPaths)
      c2 == HasArrayField(data, K_careerPaths)
  IN IF IsArray(data) THEN TopLevelArray(data)
     ELSE IF c2.threw THEN Throw
     ELSE IF c2.b THEN Return(GetProp(data, K_careerPaths).a)
     ELSE IF c1.threw THEN Throw
     ELSE IF c1.b THEN Return(GetProp(data, K_suggestedCareerPaths).a)
     ELSE IF Truthy(data) /\ data.t = "obj" /\ Len(FlattenArrays(data.f)) > 0
          THEN Return(FlattenArrays(data.f))
     ELSE NoArrays(data)
Shape(data) ==
  LET c1 == HasArrayField(data, K_suggestedCareerPaths)
      c2 == HasArrayField(data, K_careerPaths)
  IN IF IsArray(data) THEN TopLevelArray(data)
     ELSE IF c1.threw THEN Throw
     ELSE IF c1.b THEN Return(GetProp(data, K_suggestedCareerPaths).a)
     ELSE IF c2.threw THEN Throw
     ELSE IF c2.b THEN Return(GetProp(data, K_careerPaths).a)
     ELSE IF Truthy(data) /\ data.t = "obj" /\ Len(FlattenArrays(data.f)) > 0
          THEN Return(FlattenArrays(data.f))
     ELSE NoArrays(data)

normalize(out) ==
  LET d == TryParse(out)
  IN IF d.threw THEN Throw ELSE Shape(d.value)

(***************************************************************************)
(* The outputs the external model may hand back (genkit.ts line 228): a    *)
(* pre-parsed structure, or a text that is JSON, broken JSON, or JSON      *)
(* encoded twice.                                                          *)
(***************************************************************************)
RECURSIVE JSONstringify(_)
RECURSIVE StringifyElements(_)
RECURSIVE StringifyMembers(_)

\* The JSON text of a value, as a model that answers in text writes it.
JSONstringify(v) ==
  CASE v.t = "null" -> <<"null">>
    [] v.t = "bool" -> IF v.b THEN <<"true">> ELSE <<"false">>
    [] v.t = "num" -> <<Digits[v.n + 1]>>
    [] v.t = "str" -> <<QUOTE>> \o Escape(v.s) \o <<QUOTE>>
    [] v.t = "arr" -> <<"[">> \o StringifyElements(v.a) \o <<"]">>
    [] v.t = "obj" -> <<"{">> \o StringifyMembers(v.f) \o <<"}">>

StringifyElements(a) ==
  IF a = <<>> THEN <<>>
  ELSE JSONstringify(a[1])
         \o (IF Len(a) > 1 THEN <<",">> \o StringifyElements(Tail(a)) ELSE <<>>)

StringifyMembers(f) ==
  IF f = <<>> THEN <<>>
  ELSE JSONstringify(Str(f[1].k)) \o <<":">> \o JSONstringify(f[1].v)
         \o (IF Len(f) > 1 THEN <<",">> \o StringifyMembers(Tail(f)) ELSE <<>>)

SeqsUpTo(S, n) == UNION {[1..k -> S] : k \in 0..n}

\* A career-path-like record, as far as normalize looks at it.
PathRec(name) == Obj(<<Field(<<"careerPath">>, Str(<<name>>))>>)

\* "resumeInsights": { "pros": [...], "cons": [...] } of the prompt's schema
Insights == Obj(<<Field(<<"pros">>, Arr(<<Str(<<"x">>)>>)), Field(<<"cons">>, Arr(<<>>))>>)

Elems == {PathRec("x"), Num(1), Str(<<"[", "1", "]">>), Arr(<<Num(0)>>)}
Arrays == {Arr(a) : a \in SeqsUpTo(Elems, MaxLen)}

\* No key is an array index, which Object.keys would report before the others.
Keys == {K_suggestedCareerPaths, K_careerPaths, <<"resumeInsights">>, <<"Web", " ", "Development">>}
FieldVals ==
  {Arr(<<>>), Arr(<<PathRec("x")>>), Arr(<<Arr(<<Num(0)>>), PathRec("y")>>), Num(1),
   Str(<<QUOTE, "x">>), Insights}
FieldSeqs ==
  UNION {{[i \in 1..k |-> Field(ks[i], vs[i])] :
            ks \in {q \in [1..k -> Keys] : \A i, j \in 1..k : q[i] = q[j] => i = j},
            vs \in [1..k -> FieldVals]} : k \in 0..MaxFields}
Objects == {Obj(f) : f \in FieldSeqs}

Scalars == {Null, Bool(TRUE), Bool(FALSE), Num(0), Num(1)}
Values == Scalars \cup Arrays \cup Objects

Texts == {JSONstringify(v) : v \in Values}
Truncated == {SubSeq(t, 1, Len(t) - 1) : t \in Texts}
DoubleEncoded == {JSONstringify(Str(JSONstringify(v))) : v \in Arrays}
OtherTexts ==
  {<<>>, <<"x">>, <<"[", "1", ",", "]">>, <<"[", "]", "]">>, <<ESCQUOTE>>,
   <<QUOTE, "x", QUOTE>>, <<QUOTE, QUOTE>>,
   <<"{", QUOTE, "careerPaths", QUOTE, ":", "[", "1", "]", ",",
     QUOTE, "careerPaths", QUOTE, ":", "null", "}">>}

RawOutputs ==
  Values \cup {Undefined}
    \cup {Str(t) : t \in Texts \cup Truncated \cup DoubleEncoded \cup OtherTexts}

(***************************************************************************)
(* fallbackSuggestions (genkit.ts lines 153-225).                          *)
(*                                                                         *)
(* A skill name of the catalog is written as the sequence of its pieces:   *)
(* each piece is a run of characters that encodeURIComponent leaves alone, *)
(* or one character that it escapes.  JoinStr gives the string itself.     *)
(***************************************************************************)
RECURSIVE JoinStr(_)
JoinStr(pieces) == IF pieces = <<>> THEN "" ELSE pieces[1] \o JoinStr(Tail(pieces))

Item(name, skills) == [careerPath |-> name, requiredSkills |-> skills]

catalog ==
  ("Artificial Intelligence" :>
     <<Item("Machine Learning Engineer",
            << <<"Python">>, <<"Machine", " ", "Learning">>, <<"TensorFlow">>, <<"PyTorch">>,
               <<"Data", " ", "Structures">>, <<"Statistics">> >>),
       Item("AI Researcher",
            << <<"Python">>, <<"Deep", " ", "Learning">>, <<"NLP">>,
               <<"Research", " ", "Methods">>, <<"Mathematics">> >>)>>)
  @@ ("Web Development" :>
     <<Item("Frontend Developer",
            << <<"HTML">>, <<"CSS">>, <<"JavaScript">>, <<"React">>, <<"TypeScript">> >>),
       Item("Full-Stack Developer",
            << <<"Node.js">>, <<"Express">>, <<"React">>, <<"Databases">>,
               <<"REST", " ", "APIs">> >>)>>)
  @@ ("UI/UX Design" :>
     <<Item("UI/UX Designer",
            << <<"Figma">>, <<"Wireframing">>, <<"Prototyping">>, <<"Design", " ", "Systems">>,
               <<"User", " ", "Research">> >>),
       Item("Product Designer",
            << <<"Interaction", " ", "Design">>, <<"Visual", " ", "Design">>,
               <<"Usability", " ", "Testing">>, <<"Figma">> >>)>>)
  @@ ("Data Science" :>
     <<Item("Data Scientist",
            << <<"Python">>, <<"Pandas">>, <<"Machine", " ", "Learning">>, <<"Statistics">>,
               <<"SQL">> >>),
       Item("Data Analyst",
            << <<"SQL">>, <<"Excel">>, <<"Tableau", "/", "PowerBI">>, <<"Python">>,
               <<"Data", " ", "Cleaning">> >>)>>)
  @@ ("Cybersecurity" :>
     <<Item("Security Analyst",
            << <<"Network", " ", "Security">>, <<"SIEM">>, <<"Incident", " ", "Response">>,
               <<"Linux">>, <<"Scripting">> >>),
       Item("Penetration Tester",
            << <<"Linux">>, <<"Networking">>, <<"Burp", " ", "Suite">>, <<"OWASP">>,
               <<"Scripting">> >>)>>)
  @@ ("Mobile App Development" :>
     <<Item("Android Developer",
            << <<"Kotlin">>, <<"Android", " ", "SDK">>, <<"Jetpack">>,
               <<"REST", " ", "APIs">> >>),
       Item("Flutter Developer",
            << <<"Dart">>, <<"Flutter">>, <<"State", " ", "Management">>,
               <<"REST", " ", "APIs">> >>)>>)
  @@ ("Cloud Computing" :>
     <<Item("Cloud Engineer",
            << <<"AWS", "/", "Azure", "/", "GCP">>, <<"Linux">>, <<"Terraform">>,
               <<"Networking">>, <<"Containers">> >>),
       Item("DevOps Engineer",
            << <<"CI", "/", "CD">>, <<"Docker">>, <<"Kubernetes">>, <<"Monitoring">>,
               <<"Scripting">> >>)>>)
  @@ ("Game Development" :>
     <<Item("Game Developer",
            << <<"Unity", "/", "Unreal">>, <<"C", "#", " ", "or", " ", "C", "+", "+">>,
               <<"Game", " ", "Physics">>, <<"3D", " ", "Math">> >>),
       Item("Technical Artist",
            << <<"Shaders">>, <<"3D", " ", "Pipelines">>, <<"Scripting">>,
               <<"Rendering">> >>)>>)

\* The own keys of the catalog object literal.
CatalogLabels == DOMAIN catalog

\* The property names every object literal inherits from Object.prototype:
\* reading one of them from the catalog gives a function (or, for __proto__,
\* the prototype object), never undefined and never an array.
ObjectPrototypeKeys ==
  {"constructor", "__proto__", "toString", "toLocaleString", "valueOf", "hasOwnProperty",
   "isPrototypeOf", "propertyIsEnumerable", "__defineGetter__", "__defineSetter__",
   "__lookupGetter__", "__lookupSetter__"}

\* catalog[interest]
CatalogGet(interest) ==
  IF interest \in CatalogLabels
  THEN [kind |-> "array", items |-> catalog[interest]]
  ELSE IF interest \in ObjectPrototypeKeys THEN [kind |-> "inherited", items |-> <<>>]
  ELSE [kind |-> "undefined", items |-> <<>>]

\* const items = catalog[interest] || [];
ItemsOf(interest) ==
  LET v == CatalogGet(interest)
  IN IF v.kind = "undefined" THEN [kind |-> "array", items |-> <<>>] ELSE v

\* encodeURIComponent on the pieces of a string
PercentOf(c) ==
  CASE c = " " -> "%20"
    [] c = "/" -> "%2F"
    [] c = "#" -> "%23"
    [] c = "+" -> "%2B"
    [] OTHER -> c
encodeURIComponent(pieces) == JoinStr([i \in 1..Len(pieces) |-> PercentOf(pieces[i])])

Min(a, b) == IF a < b THEN a ELSE b

\* item.requiredSkills.slice(0, Math.min(3, n)).map((s) => ({ skill, yourLevel, recommendedCourses }))
GapEntry(s) ==
  [skill |-> JoinStr(s),
   yourLevel |-> "Beginner",
   recommendedCourses |->
     <<[title |-> JoinStr(s) \o " Crash Course (YouTube)",
        link |-> "https://www.youtube.com/results?search_query="
                   \o encodeURIComponent(s \o <<" ", "tutorial">>)],
       [title |-> JoinStr(s) \o " Specialization (Coursera)",
        link |-> "https://www.coursera.org/search?query=" \o encodeURIComponent(s)]>>]

GapOf_lastThree(item) ==
  LET n == Len(item.requiredSkills)
      last == SubSeq(item.requiredSkills, n - Min(3, n) + 1, n)
  IN [i \in 1..Len(last) |-> GapEntry(last[i])]
GapOf_all(item) == [i \in 1..Len(item.requiredSkills) |-> GapEntry(item.requiredSkills[i])]
GapOf(item) ==
  LET first == SubSeq(item.requiredSkills, 1, Min(3, Len(item.requiredSkills)))
  IN [i \in 1..Len(first) |-> GapEntry(first[i])]

\* tags: [interest]   (line 217)
Tags_none(interest) == <<>>
Tags(interest) == <<interest>>

\* The record pushed for one catalog item (lines 204-219).
PathOf(item, interest) ==
  LET gap == GapOf(item)
      skills == [i \in 1..Len(item.requiredSkills) |-> JoinStr(item.requiredSkills[i])]
  IN [careerPath |-> item.careerPath,
      requiredSkills |-> skills,
      missingSkills |-> skills,
      weakSkills |-> [i \in 1..Len(gap) |-> gap[i].skill],
      projectSuggestions |->
        <<[title |-> item.careerPath \o " Portfolio Project",
           description |-> "Build and deploy a production-ready project demonstrating core skills.",
           link |-> "https://roadmap.sh"]>>,
      roadmap |->
        <<[title |-> "Foundations", steps |-> <<"Learn fundamentals", "Build mini-projects">>],
          [title |-> "Intermediate", steps |-> <<"Take a specialization", "Build a capstone">>],
          [title |-> "Advanced", steps |-> <<"Contribute to open source", "Apply for internships">>]>>,
      tags |-> Tags(interest),
      skillGapReport |-> gap]

\* The record returned when no path was pushed (line 223).
GenericPath ==
  [careerPath |-> "Generalist Software Engineer",
   requiredSkills |-> <<"Problem Solving", "Git", "JavaScript/TypeScript">>,
   missingSkills |-> <<"Testing">>,
   weakSkills |-> <<"System Design">>,
   projectSuggestions |-> <<>>,
   roadmap |-> <<>>,
   tags |-> <<>>,
   skillGapReport |-> <<>>]

\* for (const item of items) { if (seen.has(item.careerPath)) continue; seen.add(...); paths.push(...) }
RECURSIVE ForItems_noSeen(_, _, _, _)
ForItems_noSeen(items, interest, seen, paths) ==
  IF items = <<>> THEN [seen |-> seen, paths |-> paths]
  ELSE ForItems_noSeen(Tail(items), interest, seen, Append(paths, PathOf(items[1], interest)))
RECURSIVE ForItems(_, _, _, _)
ForItems(items, interest, seen, paths) ==
  IF items = <<>> THEN [seen |-> seen, paths |-> paths]
  ELSE IF items[1].careerPath \in seen THEN ForItems(Tail(items), interest, seen, paths)
  ELSE ForItems(Tail(items), interest, seen \cup {items[1].careerPath},
                Append(paths, PathOf(items[1], interest)))

\* for (const interest of interests) { ... }: for-of over a value that is not
\* iterable (ECMAScript GetIterator) is a TypeError, which ends the function.
RECURSIVE ForInterests(_, _, _)
ForInterests(interests, seen, paths) ==
  IF interests = <<>> THEN Return(paths)
  ELSE LET items == ItemsOf(interests[1]) IN
       IF items.kind # "array" THEN Throw
       ELSE LET r == ForItems(items.items, interests[1], seen, paths)
            IN ForInterests(Tail(interests), r.seen, r.paths)

fallbackSuggestions_noGeneric(interests) == ForInterests(interests, {}, <<>>)
fallbackSuggestions(interests) ==
  LET c == ForInterests(interests, {}, <<>>)
  IN IF c.threw THEN c
     ELSE IF Len(c.value) # 0 THEN c ELSE Return(<<GenericPath>>)

(***************************************************************************)
(* The inputs: interests sequences and model outputs of the flow runs.     *)
(***************************************************************************)
\* interests: z.array(z.string()) (lines 43-45): catalog labels, a string that
\* is no key of any kind, and a string that names an inherited property.
InterestLabels == CatalogLabels \cup {"Painting", "constructor"}
InterestSeqs == SeqsUpTo(InterestLabels, MaxInterests)

FlowLabels == {"Artificial Intelligence", "Web Development", "Painting", "constructor"}
FlowInterestSeqs == SeqsUpTo(FlowLabels, FlowMaxInterests)

\* The prompt's schema: { resumeInsights, suggestedCareerPaths } (lines 91-120)
SchemaObject(paths) ==
  Obj(<<Field(<<"resumeInsights">>, Insights), Field(K_suggestedCareerPaths, Arr(paths))>>)

FivePaths == <<PathRec("a"), PathRec("b"), PathRec("c"), PathRec("d"), PathRec("e")>>

FlowStructures ==
  {Null, Num(1), Obj(<<>>), Arr(<<>>), Arr(FivePaths), Arr(<<Num(1)>>),
   SchemaObject(<<>>), SchemaObject(<<PathRec("x"), PathRec("y")>>),
   Obj(<<Field(K_suggestedCareerPaths, Arr(<<>>))>>),
   Obj(<<Field(K_careerPaths, Arr(<<PathRec("x")>>))>>),
   Obj(<<Field(<<"Web", " ", "Development">>, Arr(<<PathRec("x")>>)),
         Field(<<"Painting">>, Arr(<<PathRec("y")>>))>>),
   Obj(<<Field(<<"resumeInsights">>, Insights)>>)}

FlowOutputs ==
  FlowStructures \cup {Undefined}
    \cup {Str(JSONstringify(v)) : v \in FlowStructures}
    \cup {Str(<<>>), Str(<<"x">>), Str(<<"[", "1", ",", "]">>),
          Str(JSONstringify(Str(JSONstringify(Arr(FivePaths)))))}

(***************************************************************************)
(* analyzeStudentProfileFlow.  genkit.ts holds two definitions of it: the  *)
(* first (lines 124-245) wraps the call in try/catch and falls back to the *)
(* local catalog, the second (lines 360-401) only normalizes.              *)
(***************************************************************************)
NoResult == [pending |-> TRUE]

\* return { suggestedCareerPaths: normalized };  (lines 233 and 399)
NormalizedResult_keepInsights(paths) ==
  [suggestedCareerPaths |-> paths,
   resumeInsights |-> GetProp(TryParse(output).value, <<"resumeInsights">>)]
NormalizedResult(paths) == [suggestedCareerPaths |-> paths]

\* line 231
EmptyOutputResult(paths) ==
  [suggestedCareerPaths |-> paths,
   resumeInsights |-> [pros |-> <<"Basic profile analyzed">>,
                       cons |-> <<"AI output empty; used fallback">>]]

\* lines 236-242
UnavailableResult(paths) ==
  [suggestedCareerPaths |-> paths,
   resumeInsights |-> [pros |-> <<"Generated locally using interest-based defaults">>,
                       cons |-> <<"Live AI service unavailable; results may be generic">>]]

\* Where an exception raised inside the body goes: to the catch block of the
\* first definition (line 234); the second definition has no try, and the
\* flow rejects.
OnThrow == IF flowDef = 1 THEN "catch" ELSE "rejected"

NormalizeIdle == narg = Undefined /\ nret = Return(<<>>) /\ npc = "idle"
FallbackIdle == farg = <<>> /\ fret = Return(<<>>) /\ fpc = "idle"
NothingDrawn == [kind |-> "none", at |-> 0, n |-> 0, from |-> 0, newPage |-> FALSE]
PdfIdle ==
  /\ path = [careerPath |-> <<>>] /\ ppc = "idle" /\ section = 0 /\ left = 0
  /\ y = 0 /\ pages = 0 /\ drawn = NothingDrawn /\ fileName = <<>>
SanitizeIdle == sarg = <<>> /\ sret = <<>> /\ spc = "idle"
RendererIdle == PdfIdle /\ SanitizeIdle
FlowIdle ==
  /\ flowDef = 1 /\ input = [interests |-> <<>>] /\ pc = "idle"
  /\ output = Undefined /\ normalized = <<>> /\ result = NoResult /\ thrown = <<>>
  /\ consoleErrors = 0 /\ modelCalls = 0 /\ fallbackCalls = 0

Init ==
  /\ flowDef \in {1, 2}
  /\ input \in {[interests |-> i] : i \in FlowInterestSeqs}
  /\ pc = "start"
  /\ output = Undefined
  /\ normalized = <<>>
  /\ result = NoResult
  /\ thrown = <<>>
  /\ consoleErrors = 0
  /\ modelCalls = 0
  /\ fallbackCalls = 0
  /\ NormalizeIdle
  /\ FallbackIdle
  /\ RendererIdle

\* const { output } = await analyzeProfilePrompt(input);  the call returns
ModelReturns(o) ==
  /\ pc = "start"
  /\ modelCalls' = modelCalls + 1
  /\ output' = o
  /\ pc' = "called"
  /\ UNCHANGED <<flowDef, input, normalized, result, thrown, consoleErrors, fallbackCalls>>
  /\ UNCHANGED <<nvars, fvars, uivars>>

\* const { output } = await analyzeProfilePrompt(input);  the call throws
ModelThrows ==
  /\ pc = "start"
  /\ modelCalls' = modelCalls + 1
  /\ thrown' = Append(thrown, "model")
  /\ pc' = OnThrow
  /\ UNCHANGED <<flowDef, input, output, normalized, result, consoleErrors, fallbackCalls>>
  /\ UNCHANGED <<nvars, fvars, uivars>>

\* const normalized = normalize(output);
Normalize ==
  /\ pc = "called"
  /\ LET c == normalize(output) IN
       IF c.threw
       THEN /\ thrown' = Append(thrown, "normalize")
            /\ pc' = OnThrow
            /\ UNCHANGED normalized
       ELSE /\ normalized' = c.value
            /\ pc' = "normalized"
            /\ UNCHANGED thrown
  /\ UNCHANGED <<flowDef, input, output, result, consoleErrors, modelCalls, fallbackCalls>>
  /\ UNCHANGED <<nvars, fvars, uivars>>

\* return { suggestedCareerPaths: normalized };  the first definition gets
\* here only past `if (!normalized.length)`.
ReturnNormalized ==
  /\ pc = "normalized"
  /\ flowDef = 2 \/ Len(normalized) # 0
  /\ result' = NormalizedResult(normalized)
  /\ pc' = "done"
  /\ UNCHANGED <<flowDef, input, output, normalized, thrown, consoleErrors, modelCalls,
                 fallbackCalls>>
  /\ UNCHANGED <<nvars, fvars, uivars>>

\* if (!normalized.length) return { suggestedCareerPaths: fallbackSuggestions(input.interests), ... }
\* inside the try block: an exception of fallbackSuggestions goes to the catch.
FallbackOnEmpty ==
  /\ pc = "normalized"
  /\ flowDef = 1 /\ Len(normalized) = 0
  /\ fallbackCalls' = fallbackCalls + 1
  /\ LET c == fallbackSuggestions(input.interests) IN
       IF c.threw
       THEN /\ thrown' = Append(thrown, "fallback")
            /\ pc' = "catch"
            /\ UNCHANGED result
       ELSE /\ result' = EmptyOutputResult(c.value)
            /\ pc' = "done"
            /\ UNCHANGED thrown
  /\ UNCHANGED <<flowDef, input, output, normalized, consoleErrors, modelCalls>>
  /\ UNCHANGED <<nvars, fvars, uivars>>

\* catch (err) { console.error(...); return { suggestedCareerPaths: fallbackSuggestions(input.interests), ... } }
\* an exception raised here leaves the flow.
CatchFallback ==
  /\ pc = "catch"
  /\ consoleErrors' = consoleErrors + 1
  /\ fallbackCalls' = fallbackCalls + 1
  /\ LET c == fallbackSuggestions(input.interests) IN
       IF c.threw
       THEN /\ thrown' = Append(thrown, "fallback")
            /\ pc' = "rejected"
            /\ UNCHANGED result
       ELSE /\ result' = UnavailableResult(c.value)
            /\ pc' = "done"
            /\ UNCHANGED thrown
  /\ UNCHANGED <<flowDef, input, output, normalized, modelCalls>>
  /\ UNCHANGED <<nvars, fvars, uivars>>

Next ==
  \/ \E o \in FlowOutputs : ModelReturns(o)
  \/ ModelThrows
  \/ Normalize
  \/ ReturnNormalized
  \/ FallbackOnEmpty
  \/ CatchFallback

Spec == Init /\ [][Next]_vars

(***************************************************************************)
(* normalize applied to every raw output.                                  *)
(***************************************************************************)
NInit ==
  /\ narg \in RawOutputs
  /\ nret = Return(<<>>)
  /\ npc = "call"
  /\ FlowIdle
  /\ FallbackIdle
  /\ RendererIdle

NormalizeCall ==
  /\ npc = "call"
  /\ nret' = normalize(narg)
  /\ npc' = "returned"
  /\ UNCHANGED <<narg, flowvars, fvars, uivars>>

NNext == NormalizeCall

SpecNormalize == NInit /\ [][NNext]_vars

(***************************************************************************)
(* fallbackSuggestions applied to every interests sequence.                *)
(***************************************************************************)
FInit ==
  /\ farg \in InterestSeqs
  /\ fret = Return(<<>>)
  /\ fpc = "call"
  /\ FlowIdle
  /\ NormalizeIdle
  /\ RendererIdle

FallbackCall ==
  /\ fpc = "call"
  /\ fret' = fallbackSuggestions(farg)
  /\ fpc' = "returned"
  /\ UNCHANGED <<farg, flowvars, nvars, uivars>>

FNext == FallbackCall

SpecFallback == FInit /\ [][FNext]_vars

(***************************************************************************)
(* sanitizeFileName (part_000 line 51).  A name is the sequence of its     *)
(* characters.                                                             *)
(***************************************************************************)
LowerCase ==
  {"a", "b", "c", "d", "e", "f", "g", "h", "i", "j", "k", "l", "m", "n", "o", "p", "q", "r",
   "s", "t", "u", "v", "w", "x", "y", "z"}
UpperCase ==
  {"A", "B", "C", "D", "E", "F", "G", "H", "I", "J", "K", "L", "M", "N", "O", "P", "Q", "R",
   "S", "T", "U", "V", "W", "X", "Y", "Z"}
DigitChars == {"0", "1", "2", "3", "4", "5", "6", "7", "8", "9"}

\* [^a-z0-9\-] under the i flag: a character that is no letter a-z in either
\* case, no digit and no hyphen.  Without the u flag no character outside
\* ASCII is case-folded to an ASCII letter.
MatchesClass(c) == c \notin LowerCase \cup UpperCase \cup DigitChars \cup {"-"}

\* name.replace(/[^a-z0-9\-]+/gi, "_"): every match, a maximal run of matching
\* characters, is replaced by one underscore: the first character of a run
\* gives the underscore, the following ones give nothing.
ReplaceRuns_each(s) == [i \in 1..Len(s) |-> IF MatchesClass(s[i]) THEN "_" ELSE s[i]]
ReplaceRuns(s) ==
  LET marks == [i \in 1..Len(s) |->
                  IF ~MatchesClass(s[i]) THEN s[i]
                  ELSE IF i > 1 /\ MatchesClass(s[i - 1]) THEN ""
                  ELSE "_"]
  IN SelectSeq(marks, LAMBDA c : c # "")

SliceEnd == 100

\* s.slice(0, end) for end >= 0
Slice(s, end) == SubSeq(s, 1, Min(end, Len(s)))

sanitizeFileName(name) == Slice(ReplaceRuns(name), SliceEnd)

\* The names: every short name over letters of both cases, a digit, the
\* hyphen, the underscore, a space and a slash, and each of them repeated
\* until most are longer than the slice.
MaxNameLen == 3
NameChars == {"a", "Z", "7", "-", "_", " ", "/"}
Repeat(s, r) == [i \in 1..(Len(s) * r) |-> s[((i - 1) % Len(s)) + 1]]
Repeats == {1, SliceEnd \div 2 + 1}
SanitizeNames == {Repeat(s, r) : s \in SeqsUpTo(NameChars, MaxNameLen), r \in Repeats}

SInit ==
  /\ sarg \in SanitizeNames
  /\ sret = <<>>
  /\ spc = "call"
  /\ PdfIdle
  /\ FlowIdle
  /\ NormalizeIdle
  /\ FallbackIdle

SanitizeCall ==
  /\ spc = "call"
  /\ sret' = sanitizeFileName(sarg)
  /\ spc' = "returned"
  /\ UNCHANGED <<sarg, pvars, flowvars, nvars, fvars>>

SNext == SanitizeCall

SpecSanitize == SInit /\ [][SNext]_vars

(***************************************************************************)
(* handleDownloadPathPdf (part_000 lines 53-141): the vertical cursor y    *)
(* while the sections of one career path are written.  The texts are left  *)
(* out; of a block only its number of wrapped lines, lines.length, counts.  *)
(* The number of blocks of a section and the lines of a block are read     *)
(* from the path when the loop gets there.                                 *)
(***************************************************************************)
FirstY == 30        \* let y = 30;
HeaderStep == 8     \* y += 8 below a section header
HeaderRoom == 14    \* if (y + 14 > 280)
LineHeight == 7     \* lines.length * 7
PageBottom == 280   \* ... > 280
PageTop == 20       \* y = 20 on a new page

Sections ==
  <<"Required Skills:", "Missing Skills", "Weak Skills", "Recommended Courses",
    "Project Suggestions", "Roadmap">>

MaxItems == 2       \* most blocks in one section
\* doc.splitTextToSize gives at least one line; the most lines that fit on an
\* empty page, and one more.
FullPage == (PageBottom - PageTop) \div LineHeight
LineCounts == {1, 2, FullPage, FullPage + 1}

PdfNames == {<<>>, <<"U", "I", "/", "U", "X">>}

\* if (y + room > 280) { doc.addPage(); y = 20; }
NeedsNewPage_never(at, room) == FALSE
NeedsNewPage(at, room) == at + room > PageBottom

PInit ==
  /\ path \in {[careerPath |-> n] : n \in PdfNames}
  /\ ppc = "start"
  /\ section = 0
  /\ left = 0
  /\ y = 0
  /\ pages = 0
  /\ drawn = NothingDrawn
  /\ fileName = <<>>
  /\ SanitizeIdle
  /\ FlowIdle
  /\ NormalizeIdle
  /\ FallbackIdle

\* new jsPDF(); the title; let y = 30; doc.text('Required Skills:', 14, y); y += 8;
\* k is skills.length after the fill from skillGapReport (lines 56-69).
RequiredSkillsHeader(k) ==
  /\ ppc = "start"
  /\ pages' = 1
  /\ drawn' = [kind |-> "header", at |-> FirstY, n |-> 1, from |-> FirstY, newPage |-> FALSE]
  /\ y' = FirstY + HeaderStep
  /\ section' = 1
  /\ left' = k
  /\ ppc' = IF k = 0 THEN "na" ELSE "items"
  /\ UNCHANGED <<path, fileName, svars, flowvars, nvars, fvars>>

\* if (skills.length === 0) { doc.text('• N/A', 14, y); y += 8; }   (line 70)
NotAvailable ==
  /\ ppc = "na"
  /\ drawn' = [kind |-> "na", at |-> y, n |-> 1, from |-> y, newPage |-> FALSE]
  /\ y' = y + HeaderStep
  /\ ppc' = "items"
  /\ UNCHANGED <<path, section, left, pages, fileName, svars, flowvars, nvars, fvars>>

\* const lines = doc.splitTextToSize(...); if (y + lines.length * 7 > 280) { doc.addPage(); y = 20; }
\* doc.text(lines, 14, y); y += lines.length * 7;      (lines 73-74, 81, 89, 97-98, 102-103,
\* 114-117, 126-129), n = lines.length
DrawBlock(n) ==
  /\ ppc = "items"
  /\ left > 0
  /\ LET newPage == NeedsNewPage(y, n * LineHeight)
         at == IF newPage THEN PageTop ELSE y
     IN /\ pages' = IF newPage THEN pages + 1 ELSE pages
        /\ drawn' = [kind |-> "block", at |-> at, n |-> n, from |-> y, newPage |-> newPage]
        /\ y' = at + n * LineHeight
  /\ left' = left - 1
  /\ UNCHANGED <<path, ppc, section, fileName, svars, flowvars, nvars, fvars>>

\* The next section has k > 0 blocks:
\* if (y + 14 > 280) { doc.addPage(); y = 20; } doc.text(header, 14, y); y += 8;
\* (lines 80, 88, 93-94, 111-112, 123-124)
SectionHeader(k) ==
  /\ ppc = "items"
  /\ left = 0
  /\ section < Len(Sections)
  /\ LET newPage == NeedsNewPage(y, HeaderRoom)
         at == IF newPage THEN PageTop ELSE y
     IN /\ pages' = IF newPage THEN pages + 1 ELSE pages
        /\ drawn' = [kind |-> "header", at |-> at, n |-> 1, from |-> y, newPage |-> newPage]
        /\ y' = at + HeaderStep
  /\ section' = section + 1
  /\ left' = k
  /\ UNCHANGED <<path, ppc, fileName, svars, flowvars, nvars, fvars>>

\* The next section has nothing to list: no header, no block.
SkipSection ==
  /\ ppc = "items"
  /\ left = 0
  /\ section < Len(Sections)
  /\ section' = section + 1
  /\ UNCHANGED <<path, ppc, left, y, pages, drawn, fileName, svars, flowvars, nvars, fvars>>

\* const fileName = `PathFinderAI_${sanitizeFileName(path.careerPath || ... || 'Career_Path')}_Report.pdf`;
\* doc.save(fileName);      (lines 134-135)
Save ==
  /\ ppc = "items"
  /\ left = 0
  /\ section = Len(Sections)
  /\ LET name == IF path.careerPath # <<>> THEN path.careerPath
                 ELSE <<"C", "a", "r", "e", "e", "r", "_", "P", "a", "t", "h">>
     IN fileName' = <<"PathFinderAI_">> \o sanitizeFileName(name) \o <<"_Report.pdf">>
  /\ ppc' = "saved"
  /\ UNCHANGED <<path, section, left, y, pages, drawn, svars, flowvars, nvars, fvars>>

PNext ==
  \/ \E k \in 0..MaxItems : RequiredSkillsHeader(k)
  \/ NotAvailable
  \/ \E n \in LineCounts : DrawBlock(n)
  \/ \E k \in 1..MaxItems : SectionHeader(k)
  \/ SkipSection
  \/ Save

SpecPdf == PInit /\ [][PNext]_vars

(***************************************************************************)
(* The report renderer's first branch (part_000 line 143).                 *)
(***************************************************************************)
\* if (!result || !result.suggestedCareerPaths || result.suggestedCareerPaths.length === 0)
\* an array, empty or not, is truthy.
NoSuggestionsAvailable(res) ==
  \/ res = NoResult
  \/ Len(res.suggestedCareerPaths) = 0

(***************************************************************************)
(* Properties of the flow (specification Spec).                            *)
(***************************************************************************)
Finished == pc \in {"done", "rejected"}
ModelThrew == thrown # <<>> /\ thrown[1] = "model"
ModelReturned == modelCalls = 1 /\ ~ModelThrew

\* C1: whatever the input and whatever the model call does (throws, returns
\* nothing, returns malformed or differently shaped content, returns a usable
\* list), the flow with the try/catch ends by returning an AnalysisResult and
\* never lets an error reach its caller.
C1_AlwaysReturnsResult ==
  flowDef = 1 =>
    /\ pc # "rejected"
    /\ pc = "done" => "suggestedCareerPaths" \in DOMAIN result

\* C2: when the model call returned and normalize(output) is not empty, the
\* flow returns exactly that sequence as suggestedCareerPaths, the result has
\* no resumeInsights field, and fallbackSuggestions was not called.
C2_NonEmptyReturnedAsIs ==
  (Finished /\ ModelReturned /\ Len(normalize(output).value) > 0) =>
    /\ pc = "done"
    /\ DOMAIN result = {"suggestedCareerPaths"}
    /\ result.suggestedCareerPaths = normalize(output).value
    /\ fallbackCalls = 0

\* C2 witness: the model answered with the schema's object, resumeInsights
\* included, and the flow with the fallback returned its two paths.
C2_Witness ==
  /\ flowDef = 1
  /\ pc = "done"
  /\ output = SchemaObject(<<PathRec("x"), PathRec("y")>>)
  /\ DOMAIN result = {"suggestedCareerPaths"}
  /\ result.suggestedCareerPaths = <<PathRec("x"), PathRec("y")>>

\* C3: when the model call returned and normalize(output) is empty, the flow
\* with the fallback returns fallbackSuggestions(input.interests) together
\* with resumeInsights whose cons say the AI output was empty and the
\* fallback was used.
C3_EmptyOutputFallsBack ==
  (flowDef = 1 /\ Finished /\ ModelReturned /\ Len(normalize(output).value) = 0) =>
    /\ pc = "done"
    /\ "resumeInsights" \in DOMAIN result
    /\ result.suggestedCareerPaths = fallbackSuggestions(input.interests).value
    /\ result.resumeInsights.cons = <<"AI output empty; used fallback">>

\* C4: when the model call throws, the flow with the fallback returns
\* fallbackSuggestions(input.interests) together with resumeInsights whose cons
\* say the live AI service was unavailable, a message other than the one for
\* an empty output.
C4_ThrowFallsBack ==
  (flowDef = 1 /\ Finished /\ ModelThrew) =>
    /\ pc = "done"
    /\ "resumeInsights" \in DOMAIN result
    /\ result.suggestedCareerPaths = fallbackSuggestions(input.interests).value
    /\ result.resumeInsights.cons = <<"Live AI service unavailable; results may be generic">>
    /\ result.resumeInsights.cons # <<"AI output empty; used fallback">>

(***************************************************************************)
(* Properties of normalize (specification SpecNormalize).                  *)
(***************************************************************************)
IsSequence(x) == DOMAIN x = 1..Len(x)

\* C5: normalize never raises: for every input (a string that is JSON or is
\* not, null, undefined, a number, a boolean, an array, an object) the call
\* returns a sequence, and a string that does not parse as JSON gives the
\* empty sequence.
C5_NormalizeNeverRaises ==
  npc = "returned" =>
    /\ ~nret.threw
    /\ IsSequence(nret.value)
    /\ (narg.t = "str" /\ JSONparse(narg.s).threw) => nret.value = <<>>

\* C5 witness: normalize was given a text with a trailing comma, "[1,]", and
\* returned the empty sequence.
C5_Witness ==
  /\ npc = "returned"
  /\ narg = Str(<<"[", "1", ",", "]">>)
  /\ JSONparse(narg.s).threw
  /\ nret = Return(<<>>)

\* C6: for every array A, the empty one and those whose elements are no
\* career-path records included, normalize(A) is A: the same elements in the
\* same order.
C6_ArrayIdentity ==
  (npc = "returned" /\ narg.t = "arr") => nret = Return(narg.a)

\* C6 witness: normalize was given an array of a number and a nested array and
\* returned both.
C6_Witness ==
  /\ npc = "returned"
  /\ narg = Arr(<<Num(1), Arr(<<Num(0)>>)>>)
  /\ nret.value = <<Num(1), Arr(<<Num(0)>>)>>

\* No accepted shape: not an array, no array-valued suggestedCareerPaths or
\* careerPaths field, and not an object with a non-empty array-valued field.
NoAcceptedShape(v) ==
  /\ ~IsArray(v)
  /\ ~IsArray(GetProp(v, K_suggestedCareerPaths))
  /\ ~IsArray(GetProp(v, K_careerPaths))
  /\ ~(v.t = "obj" /\ \E i \in 1..Len(v.f) : IsArray(v.f[i].v) /\ v.f[i].v.a # <<>>)

\* A string that is JSON stands for the value it encodes; every other value
\* stands for itself.
Decoded(v) ==
  IF v.t = "str" /\ ~JSONparse(v.s).threw THEN JSONparse(v.s).value ELSE v

\* C7 as stated: for every value of no accepted shape (null, numbers,
\* booleans, strings, objects without array-valued fields) normalize returns
\* the empty sequence.
C7_NoShapeGivesEmpty ==
  (npc = "returned" /\ NoAcceptedShape(narg)) => nret = Return(<<>>)

\* C7 amended: for every value that, once a string that is JSON has been
\* decoded, has no accepted shape, normalize returns the empty sequence.
C7_NoShapeAfterDecodingGivesEmpty ==
  (npc = "returned" /\ NoAcceptedShape(Decoded(narg))) => nret = Return(<<>>)

\* C7 witness: normalize was given an object whose only field, resumeInsights,
\* is an object, and returned the empty sequence.
C7_Witness ==
  /\ npc = "returned"
  /\ narg = Obj(<<Field(<<"resumeInsights">>, Insights)>>)
  /\ NoAcceptedShape(Decoded(narg))
  /\ nret = Return(<<>>)

\* The structures the texts were written from, with their texts.
EncodedStructures == {<<JSONstringify(v), v>> : v \in Arrays \cup Objects}

\* C8: for every string S that is JSON and decodes to an array or an object,
\* normalize(S) = normalize(decode(S)): the text and the structure it encodes
\* give the same sequence.
C8_TextAndStructureAgree ==
  npc = "returned" =>
    /\ (/\ narg.t = "str"
        /\ ~JSONparse(narg.s).threw
        /\ JSONparse(narg.s).value.t \in {"arr", "obj"})
         => nret = normalize(JSONparse(narg.s).value)
    /\ \A e \in EncodedStructures : narg = Str(e[1]) => nret = normalize(e[2])

\* C8 witness: normalize was given the text of the schema's object and returned
\* the one path of its suggestedCareerPaths.
C8_Witness ==
  /\ npc = "returned"
  /\ narg = Str(JSONstringify(SchemaObject(<<PathRec("x")>>)))
  /\ nret = Return(<<PathRec("x")>>)

(***************************************************************************)
(* Properties of fallbackSuggestions (specification SpecFallback).         *)
(***************************************************************************)
\* C9: for every interests sequence without a catalog label (the empty one,
\* and one of arbitrary other strings) fallbackSuggestions returns exactly one
\* record, the generic "Generalist Software Engineer" one with its fixed
\* skills and empty projectSuggestions, roadmap, tags and skillGapReport; an
\* interest that is no catalog label never causes an error.
C9_NoCatalogLabelGivesGeneric ==
  (fpc = "returned" /\ \A i \in 1..Len(farg) : farg[i] \notin CatalogLabels) =>
    /\ ~fret.threw
    /\ Len(fret.value) = 1
    /\ fret.value[1].careerPath = "Generalist Software Engineer"
    /\ fret.value[1].requiredSkills = <<"Problem Solving", "Git", "JavaScript/TypeScript">>
    /\ fret.value[1].projectSuggestions = <<>>
    /\ fret.value[1].roadmap = <<>>
    /\ fret.value[1].tags = <<>>
    /\ fret.value[1].skillGapReport = <<>>

\* C10: for every sequence of k >= 1 pairwise distinct catalog labels,
\* fallbackSuggestions returns exactly 2k records: the two catalog entries of
\* the first interest in catalog order, then those of the second, and so on,
\* each tagged with exactly the interest it came from.
C10_TwoRecordsPerInterest ==
  (/\ fpc = "returned"
   /\ Len(farg) >= 1
   /\ \A i \in 1..Len(farg) : farg[i] \in CatalogLabels
   /\ \A i, j \in 1..Len(farg) : farg[i] = farg[j] => i = j)
    =>
    /\ ~fret.threw
    /\ Len(fret.value) = 2 * Len(farg)
    /\ \A i \in 1..Len(farg) : \A j \in 1..2 :
         /\ fret.value[2 * (i - 1) + j].careerPath = catalog[farg[i]][j].careerPath
         /\ fret.value[2 * (i - 1) + j].tags = <<farg[i]>>

\* C10 witness: fallbackSuggestions was given Artificial Intelligence and Web
\* Development and returned four records, the machine-learning one first.
C10_Witness ==
  /\ fpc = "returned"
  /\ farg = <<"Artificial Intelligence", "Web Development">>
  /\ Len(fret.value) = 4
  /\ fret.value[1].careerPath = "Machine Learning Engineer"
  /\ fret.value[4].careerPath = "Full-Stack Developer"

(***************************************************************************)
(* Properties of fallbackSuggestions, continued (SpecFallback).            *)
(***************************************************************************)
\* The interests sequence with every repetition of an earlier interest removed.
RECURSIVE FirstOccurrences(_)
FirstOccurrences(s) ==
  IF s = <<>> THEN <<>>
  ELSE LET init == SubSeq(s, 1, Len(s) - 1)
           last == s[Len(s)]
       IN IF \E i \in 1..Len(init) : init[i] = last
          THEN FirstOccurrences(init)
          ELSE Append(FirstOccurrences(init), last)

\* The career-path names the catalog lists under a label.
NamesUnder(label) ==
  IF label \in CatalogLabels
  THEN {catalog[label][j].careerPath : j \in 1..Len(catalog[label])}
  ELSE {}

\* C11: for every interests sequence, repetitions included, no two returned
\* records have the same careerPath name; a record's tag is the earliest
\* interest of the sequence whose catalog group lists its name; and the result
\* is the one returned for the sequence without the repetitions.
C11_NoDuplicateNames ==
  (fpc = "returned" /\ ~fret.threw) =>
    /\ \A i, j \in 1..Len(fret.value) :
         fret.value[i].careerPath = fret.value[j].careerPath => i = j
    /\ \A i \in 1..Len(fret.value) : \A k \in 1..Len(farg) :
         (/\ fret.value[i].careerPath \in NamesUnder(farg[k])
          /\ \A m \in 1..(k - 1) : fret.value[i].careerPath \notin NamesUnder(farg[m]))
           => fret.value[i].tags = <<farg[k]>>
    /\ fret.value = fallbackSuggestions(FirstOccurrences(farg)).value

\* C11 witness: Web Development is given twice with another interest between;
\* four records come back, the Web Development ones first.
C11_Witness ==
  /\ fpc = "returned"
  /\ farg = <<"Web Development", "Artificial Intelligence", "Web Development">>
  /\ ~fret.threw
  /\ Len(fret.value) = 4
  /\ fret.value[1].careerPath = "Frontend Developer"
  /\ fret.value[1].tags = <<"Web Development">>

\* A record of the result is catalog-derived when the catalog lists its name.
CatalogItems == {catalog[l][j] : l \in CatalogLabels, j \in 1..2}
ItemNamed(name) == CHOOSE it \in CatalogItems : it.careerPath = name
CatalogDerived(rec) == \E it \in CatalogItems : it.careerPath = rec.careerPath

\* The percent-encoded form of a skill name: the characters of the catalog's
\* skill names that are escaped in a URI component, and their escapes.
RECURSIVE PercentEncoded(_)
PercentEncoded(pieces) ==
  IF pieces = <<>> THEN ""
  ELSE (IF pieces[1] = " " THEN "%20"
        ELSE IF pieces[1] = "/" THEN "%2F"
        ELSE IF pieces[1] = "#" THEN "%23"
        ELSE IF pieces[1] = "+" THEN "%2B"
        ELSE pieces[1]) \o PercentEncoded(Tail(pieces))

\* C12: in every catalog-derived record of the result, skillGapReport has
\* min(3, number of required skills) entries, for the first required skills
\* in catalog order; each entry has yourLevel Beginner and two courses, a
\* YouTube search link and then a Coursera search link built from the
\* percent-encoded skill name; the record has one project suggestion and the
\* roadmap Foundations, Intermediate, Advanced with two steps per stage.
C12_GapReportShape ==
  (fpc = "returned" /\ ~fret.threw) =>
    \A i \in 1..Len(fret.value) :
      CatalogDerived(fret.value[i]) =>
        LET rec == fret.value[i]
            item == ItemNamed(rec.careerPath)
            n == Len(item.requiredSkills)
            gap == rec.skillGapReport
        IN /\ Len(gap) = (IF n < 3 THEN n ELSE 3)
           /\ \A k \in 1..Len(gap) :
                /\ gap[k].skill = rec.requiredSkills[k]
                /\ gap[k].yourLevel = "Beginner"
                /\ Len(gap[k].recommendedCourses) = 2
                /\ gap[k].recommendedCourses[1].link =
                     "https://www.youtube.com/results?search_query="
                       \o PercentEncoded(item.requiredSkills[k]) \o "%20tutorial"
                /\ gap[k].recommendedCourses[2].link =
                     "https://www.coursera.org/search?query="
                       \o PercentEncoded(item.requiredSkills[k])
           /\ Len(rec.projectSuggestions) = 1
           /\ Len(rec.roadmap) = 3
           /\ rec.roadmap[1].title = "Foundations"
           /\ rec.roadmap[2].title = "Intermediate"
           /\ rec.roadmap[3].title = "Advanced"
           /\ \A k \in 1..3 : Len(rec.roadmap[k].steps) = 2

\* C12 witness: Game Development returned the Game Developer record, whose four
\* required skills give three gap entries; the second one is "C# or C++".
C12_Witness ==
  /\ fpc = "returned"
  /\ farg = <<"Game Development">>
  /\ ~fret.threw
  /\ Len(fret.value[1].requiredSkills) = 4
  /\ Len(fret.value[1].skillGapReport) = 3
  /\ fret.value[1].skillGapReport[2].skill = "C# or C++"
  /\ fret.value[1].skillGapReport[2].recommendedCourses[2].link =
       "https://www.coursera.org/search?query=C%23%20or%20C%2B%2B"

(***************************************************************************)
(* Properties of the flow, continued (Spec).                               *)
(***************************************************************************)
\* normalize has returned the empty sequence in this request.
NormalizedEmpty == ModelReturned /\ pc \notin {"start", "called"} /\ Len(normalized) = 0
                     /\ "normalize" \notin {thrown[i] : i \in 1..Len(thrown)}

\* C13: within one request the external model is called first and exactly
\* once, normalize runs only after the model returned, and fallbackSuggestions
\* is invoked at most once, and only after the model call has thrown or
\* normalize has returned the empty sequence.
C13_CallOrder ==
  /\ modelCalls <= 1
  /\ pc # "start" => modelCalls = 1
  /\ pc \in {"called", "normalized"} => ModelReturned
  /\ fallbackCalls <= 1
  /\ fallbackCalls >= 1 => (ModelThrew \/ NormalizedEmpty)

(***************************************************************************)
(* Properties of normalize, continued (SpecNormalize).                     *)
(***************************************************************************)
\* The elements of the array-valued ones among the first n fields, field by
\* field in their order; an element that is itself an array stays one element.
RECURSIVE ArrayElementsUpTo(_, _)
ArrayElementsUpTo(f, n) ==
  IF n = 0 THEN <<>>
  ELSE ArrayElementsUpTo(f, n - 1) \o (IF f[n].v.t = "arr" THEN f[n].v.a ELSE <<>>)

HasField(v, key) == v.t = "obj" /\ \E i \in 1..Len(v.f) : v.f[i].k = key

\* C14: normalize resolves shapes in the order top-level array, array-valued
\* suggestedCareerPaths, array-valued careerPaths, flattening: an object whose
\* suggestedCareerPaths is an array, the empty one included, gives exactly that
\* array whatever its other fields are; a suggestedCareerPaths or careerPaths
\* field that is no array is skipped and the next shape decides.
C14_ShapePrecedence ==
  npc = "returned" =>
    LET d == Decoded(narg)
        scp == GetProp(d, K_suggestedCareerPaths)
        cp == GetProp(d, K_careerPaths)
    IN /\ d.t = "arr" => nret = Return(d.a)
       /\ (d.t = "obj" /\ scp.t = "arr") => nret = Return(scp.a)
       /\ (d.t = "obj" /\ scp.t # "arr" /\ cp.t = "arr") => nret = Return(cp.a)
       /\ (/\ HasField(d, K_suggestedCareerPaths) \/ HasField(d, K_careerPaths)
           /\ scp.t # "arr" /\ cp.t # "arr")
            => nret = Return(ArrayElementsUpTo(d.f, Len(d.f)))

\* C14 witness: normalize was given an object that lists a non-empty careerPaths
\* before an empty suggestedCareerPaths, and returned the empty sequence.
C14_Witness ==
  /\ npc = "returned"
  /\ narg = Obj(<<Field(K_careerPaths, Arr(<<PathRec("x")>>)),
                  Field(K_suggestedCareerPaths, Arr(<<>>))>>)
  /\ nret = Return(<<>>)

\* C15: for an object with no array-valued suggestedCareerPaths or careerPaths
\* field, normalize returns the elements of every array-valued field,
\* concatenated in field order; other fields are ignored, nested arrays stay
\* elements, and with no array-valued field or only empty ones the result is
\* the empty sequence.
C15_FlattenInFieldOrder ==
  npc = "returned" =>
    LET d == Decoded(narg)
    IN (/\ d.t = "obj"
        /\ GetProp(d, K_suggestedCareerPaths).t # "arr"
        /\ GetProp(d, K_careerPaths).t # "arr")
         => /\ nret = Return(ArrayElementsUpTo(d.f, Len(d.f)))
            /\ (\A i \in 1..Len(d.f) : d.f[i].v.t = "arr" => d.f[i].v.a = <<>>)
                 => nret = Return(<<>>)

\* C15 witness: normalize was given an object with two array-valued fields, the
\* second holding a nested array, and returned the three elements in order.
C15_Witness ==
  /\ npc = "returned"
  /\ narg = Obj(<<Field(<<"Web", " ", "Development">>, Arr(<<PathRec("x")>>)),
                  Field(<<"resumeInsights">>, Arr(<<Arr(<<Num(0)>>), PathRec("y")>>))>>)
  /\ nret = Return(<<PathRec("x"), Arr(<<Num(0)>>), PathRec("y")>>)

(***************************************************************************)
(* Properties of the PDF export (SpecPdf).                                 *)
(***************************************************************************)
\* C16: before a block of n wrapped lines is drawn, a new page is added and
\* the cursor reset to 20 exactly if y + 7n would exceed 280; so every block
\* with n <= 37 is drawn at a cursor y with y + 7n <= 280; the cursor only
\* increases within a page; and every section header after the first is drawn
\* at y <= 266.
C16_PageBreaks ==
  /\ drawn.kind = "block" =>
       /\ drawn.newPage <=> (drawn.from + 7 * drawn.n > 280)
       /\ drawn.at = (IF drawn.newPage THEN 20 ELSE drawn.from)
       /\ drawn.n <= 37 => drawn.at + 7 * drawn.n <= 280
  /\ (drawn.kind # "none" /\ ~drawn.newPage) => (drawn.at = drawn.from /\ y > drawn.from)
  /\ (drawn.kind = "header" /\ section > 1) => drawn.at <= 266

\* C16 witness: a block of 37 lines did not fit below the cursor, went to the
\* top of a second page and ended at 279.
C16_Witness ==
  /\ drawn.kind = "block"
  /\ drawn.n = 37
  /\ drawn.newPage
  /\ drawn.at = 20
  /\ pages = 2
  /\ y = 279

(***************************************************************************)
(* Properties of sanitizeFileName (SpecSanitize).                          *)
(***************************************************************************)
AsciiLetters == LowerCase \cup UpperCase

\* out is the first 100 characters of: s with every maximal run of characters
\* outside `kept` replaced by one underscore and the other characters in
\* their order.  The positions of s that give a character are those of kept
\* characters and those where a run begins.
RunsReplacedIn(out, kept, s) ==
  LET giving == {i \in 1..Len(s) : s[i] \in kept \/ i = 1 \/ s[i - 1] \in kept}
      rank(i) == Cardinality({k \in giving : k <= i})
  IN /\ Len(out) = (IF Cardinality(giving) < 100 THEN Cardinality(giving) ELSE 100)
     /\ \A i \in giving :
          rank(i) <= 100 => out[rank(i)] = (IF s[i] \in kept THEN s[i] ELSE "_")

\* C17 as stated: sanitizeFileName returns at most 100 characters, all of them
\* ASCII letters, digits, hyphens or underscores, in which each maximal run of
\* other characters of the name (characters that are none of these four
\* kinds) is one underscore and the rest keeps its order; and sanitizing the
\* result again changes nothing.
C17_RunsOfOtherCharacters ==
  spc = "returned" =>
    /\ Len(sret) <= 100
    /\ \A i \in 1..Len(sret) : sret[i] \in AsciiLetters \cup DigitChars \cup {"-", "_"}
    /\ RunsReplacedIn(sret, AsciiLetters \cup DigitChars \cup {"-", "_"}, sarg)
    /\ sanitizeFileName(sret) = sret

\* C17 amended: the runs that become one underscore are the maximal runs of
\* characters that are no ASCII letter, digit or hyphen; an underscore of the
\* name belongs to such a run.
C17_RunsOutsideLettersDigitsHyphens ==
  spc = "returned" =>
    /\ Len(sret) <= 100
    /\ \A i \in 1..Len(sret) : sret[i] \in AsciiLetters \cup DigitChars \cup {"-", "_"}
    /\ RunsReplacedIn(sret, AsciiLetters \cup DigitChars \cup {"-"}, sarg)
    /\ sanitizeFileName(sret) = sret

\* C17 witness: a name of 153 characters that repeats a letter, a space and an
\* underscore came back as 100 characters, letter and underscore in turn.
C17_Witness ==
  /\ spc = "returned"
  /\ sarg = Repeat(<<"a", " ", "_">>, 51)
  /\ Len(sret) = 100
  /\ sret = Repeat(<<"a", "_">>, 50)

(***************************************************************************)
(* Properties of the flow and the renderer (Spec).                         *)
(***************************************************************************)
\* C18: in every result returned by the flow definition with the fallback,
\* suggestedCareerPaths is a non-empty array; resumeInsights is present
\* exactly if fallbackSuggestions produced the paths; and the renderer does
\* not take its "No Suggestions Available" branch on such a result.
C18_ReturnedPathsNonEmpty ==
  (flowDef = 1 /\ pc = "done") =>
    /\ IsSequence(result.suggestedCareerPaths)
    /\ Len(result.suggestedCareerPaths) > 0
    /\ ("resumeInsights" \in DOMAIN result) <=> (fallbackCalls >= 1)
    /\ fallbackCalls >= 1 =>
         result.suggestedCareerPaths = fallbackSuggestions(input.interests).value
    /\ fallbackCalls = 0 => result.suggestedCareerPaths = normalized
    /\ ~NoSuggestionsAvailable(result)

\* C18 witness: the model returned nothing usable, the only interest is no
\* catalog label, and the flow returned the generic record with resumeInsights.
C18_Witness ==
  /\ flowDef = 1
  /\ pc = "done"
  /\ input.interests = <<"Painting">>
  /\ ModelReturned
  /\ normalized = <<>>
  /\ fallbackCalls = 1
  /\ result.suggestedCareerPaths = <<GenericPath>>
  /\ "resumeInsights" \in DOMAIN result
  /\ ~NoSuggestionsAvailable(result)

(***************************************************************************)
(* Properties of fallbackSuggestions, concluded (SpecFallback).            *)
(***************************************************************************)
IsPrefix(p, q) == Len(p) <= Len(q) /\ \A i \in 1..Len(p) : p[i] = q[i]

\* C19: in every catalog-derived record of the result, missingSkills equals
\* requiredSkills, weakSkills is the sequence of skill names of skillGapReport
\* in order, and that sequence is a prefix of requiredSkills.
C19_SkillListsAgree ==
  (fpc = "returned" /\ ~fret.threw) =>
    \A i \in 1..Len(fret.value) :
      CatalogDerived(fret.value[i]) =>
        LET rec == fret.value[i] IN
          /\ rec.missingSkills = rec.requiredSkills
          /\ Len(rec.weakSkills) = Len(rec.skillGapReport)
          /\ \A k \in 1..Len(rec.weakSkills) : rec.weakSkills[k] = rec.skillGapReport[k].skill
          /\ IsPrefix(rec.weakSkills, rec.requiredSkills)

\* C19 witness: Data Science returned the Data Analyst record second; its
\* five skills are all missing and the first three are weak.
C19_Witness ==
  /\ fpc = "returned"
  /\ farg = <<"Data Science">>
  /\ ~fret.threw
  /\ fret.value[2].requiredSkills = <<"SQL", "Excel", "Tableau/PowerBI", "Python", "Data Cleaning">>
  /\ fret.value[2].missingSkills = fret.value[2].requiredSkills
  /\ fret.value[2].weakSkills = <<"SQL", "Excel", "Tableau/PowerBI">>

====
